---- MODULE Spec2Model ----
(***************************************************************************)
(* Day-data engine of the lunar calendar (src/src/components/Calendar.tsx): *)
(* base day resolution with its cache, the merge with custom holiday       *)
(* ranges and marked dates, the 42-cell month grid, the holiday block      *)
(* flags and the holiday progress computation; the handlers of the         *)
(* Calendar component (marks, the custom holiday form, the month list);    *)
(* and the install prompt hook (src/src/hooks/usePWAInstall.ts).           *)
(*                                                                         *)
(* A Date is a record [day, tod]: day = local calendar day counted from    *)
(* 1970-01-01, tod = seconds since local midnight; every day has 24 hours  *)
(* (no daylight-saving shift).  A string that holds a date key is a        *)
(* sequence of character codes, compared as JavaScript compares strings;   *)
(* holiday names are TLA+ strings.                                         *)
(***************************************************************************)
EXTENDS Integers, Sequences, FiniteSets, TLC

VARIABLES
    holidayUtil,      \* HolidayUtil.getHoliday, the built-in holiday oracle
    lunarLib,         \* Solar/Lunar, the lunar and festival oracle
    baseDayCache,     \* module-level cache of BaseDayData
    customHolidays,   \* React state: ordered list of CustomHoliday
    markedDates,      \* React state: set of date keys
    currentDate,      \* React state: the reference date ("today")
    base,             \* the BaseDayData resolved last outside a grid: the one
                      \* handed to combineDayData, or Calendar's selectedBaseData
    dayData,          \* the DayData combineDayData returned
    month,            \* MonthView prop: the month of the grid
    days,             \* MonthView: the memoised daysArr
    cells,            \* MonthView: per-cell flags computed by days.map
    name,             \* holidayProgress: the name of the built-in holiday
    startD,           \* holidayProgress: local of the backward scan
    endD,             \* holidayProgress: local of the forward scan
    holidayProgress,  \* holidayProgress: the value returned
    scanned,          \* neighbour days examined by the running scan loop
    selectedDate,           \* React state: the day of the bottom sheet, or null
    showCustomHolidayForm,  \* React state: the form is open
    holidayNameInput,       \* React state: the name typed into the form
    holidayEndInput,        \* React state: the end date picked in the form
    months,           \* React state: the months displayed, in order
    activeMonth,      \* React state: the month named in the header
    memo,             \* useMemo of each displayed MonthView: deps and days
    installPrompt,    \* usePWAInstall state: the stored event, or null
    events,           \* the BeforeInstallPromptEvent objects dispatched so far
    calls,            \* the promptInstall calls that are suspended at an await
    pc                \* position of the computation being run

vars == <<holidayUtil, lunarLib, baseDayCache, customHolidays, markedDates,
          currentDate, base, dayData, month, days, cells, name, startD, endD,
          holidayProgress, scanned, selectedDate, showCustomHolidayForm,
          holidayNameInput, holidayEndInput, months, activeMonth, memo,
          installPrompt, events, calls, pc>>

oracleVars   == <<holidayUtil, lunarLib>>
userVars     == <<customHolidays, markedDates, currentDate>>
mergeVars    == <<base, dayData>>
gridVars     == <<month, days, cells>>
progressVars == <<name, startD, endD, holidayProgress, scanned>>
formVars     == <<selectedDate, showCustomHolidayForm, holidayNameInput,
                  holidayEndInput>>
viewVars     == <<months, activeMonth, memo>>
pwaVars      == <<installPrompt, events, calls>>
appVars      == <<formVars, viewVars, pwaVars>>

-----------------------------------------------------------------------------
(* Bounds of the model *)

MaxRanges == 2

\* the displayed months reach this far on either side of the month jumped to
\* (the component displays 12 on either side)
MonthsAround == 1

\* beforeinstallprompt events dispatched, and calls of promptInstall that
\* reach an await
MaxEvents == 2
MaxCalls == 2

\* the longest scan the design asks for ("a sanity bound, e.g. 30 days")
SanityBound == 30

\* the scan loops of the model stop after this many neighbour days
MaxScan == SanityBound + 2

-----------------------------------------------------------------------------
(* JavaScript Date, as far as the component uses it.  In what follows a      *)
(* generator x \in {e} names the value of e once, as a const declaration     *)
(* does, and a function f[x \in S] evaluates its argument once.              *)

\* days from 1970-01-01 of the civil date y-m-d (m in 1..12), proleptic Gregorian
DaysFromCivil[y \in Int, m \in 1..12, d \in Int] ==
    LET yy  == IF m <= 2 THEN y - 1 ELSE y
        era == yy \div 400
        yoe == yy - era * 400
        mp  == IF m > 2 THEN m - 3 ELSE m + 9
        doy == (153 * mp + 2) \div 5 + d - 1
        doe == yoe * 365 + yoe \div 4 - yoe \div 100 + doy
    IN  era * 146097 + doe - 719468

CivilOfYear[yoe \in Nat, doy \in Nat, era \in Int] ==
    LET mp == (5 * doy + 2) \div 153
        m  == IF mp < 10 THEN mp + 3 ELSE mp - 9
    IN  [y |-> yoe + era * 400 + (IF m <= 2 THEN 1 ELSE 0),
         m |-> m,
         d |-> doy - (153 * mp + 2) \div 5 + 1]

CivilOfEra[doe \in Nat, era \in Int] ==
    LET yoe == (doe - doe \div 1460 + doe \div 36524 - doe \div 146096) \div 365
    IN  CivilOfYear[yoe, doe - (365 * yoe + yoe \div 4 - yoe \div 100), era]

\* the civil date of a day number: [y, m (1..12), d]
CivilFromDays[z \in Int] ==
    LET zz  == z + 719468
        era == zz \div 146097
    IN  CivilOfEra[zz - era * 146097, era]

\* new Date(year, monthIndex, day): monthIndex is 0-based and, like day, may
\* lie outside its range; the result is local midnight
NewDate(year, monthIndex, day) ==
    [day |-> DaysFromCivil[year + monthIndex \div 12, (monthIndex % 12) + 1, 1] + day - 1,
     tod |-> 0]

getFullYear(date) == CivilFromDays[date.day].y
getMonth(date)    == CivilFromDays[date.day].m - 1
getDate(date)     == CivilFromDays[date.day].d
\* 0 = Sunday .. 6 = Saturday; 1970-01-01 was a Thursday
getDay(date)      == (date.day + 4) % 7

\* a Date: its local calendar day and its time of day in seconds
Dates == [day : Int, tod : Nat]

\* date.setDate(date.getDate() + delta): the time of day is kept
AddDays(date, delta) == [day |-> date.day + delta, tod |-> date.tod]

-----------------------------------------------------------------------------
(* Strings holding dates: sequences of character codes *)

DashStr  == <<45>>
TimeStr  == <<84, 48, 48, 58, 48, 48, 58, 48, 48>>   \* 'T00:00:00'
TrueStr  == <<116, 114, 117, 101>>
FalseStr == <<102, 97, 108, 115, 101>>

\* String(n) for a natural number
Digits[n \in Nat] ==
    IF n < 10 THEN <<48 + n>> ELSE Append(Digits[n \div 10], 48 + (n % 10))

\* str.padStart(w, '0')
PadStart[str \in Seq(Nat), w \in Nat] ==
    IF Len(str) >= w THEN str ELSE PadStart[<<48>> \o str, w]

CivilDates == [y : Nat, m : 1..12, d : 1..31]

FormatCivil[c \in CivilDates] ==
    PadStart[Digits[c.y], 4] \o DashStr \o PadStart[Digits[c.m], 2]
        \o DashStr \o PadStart[Digits[c.d], 2]

\* format(date, 'yyyy-MM-dd')
format(date) == FormatCivil[CivilFromDays[date.day]]

\* a < b for JavaScript strings: code unit by code unit, a proper prefix is less
StrLess[a \in Seq(Nat), b \in Seq(Nat)] ==
    IF b = <<>> THEN FALSE
    ELSE IF a = <<>> THEN TRUE
    ELSE IF Head(a) # Head(b) THEN Head(a) < Head(b)
    ELSE StrLess[Tail(a), Tail(b)]

StrLeq(a, b) == ~StrLess[b, a]
StrGeq(a, b) == ~StrLess[a, b]

\* the number a string of digits reads as
DigitsValue[str \in Seq(Nat)] ==
    IF str = <<>> THEN 0
    ELSE 10 * DigitsValue[SubSeq(str, 1, Len(str) - 1)] + (str[Len(str)] - 48)

ParseIso[str \in Seq(Nat)] ==
    [day |-> DaysFromCivil[DigitsValue[SubSeq(str, 1, 4)],
                           DigitsValue[SubSeq(str, 6, 7)],
                           DigitsValue[SubSeq(str, 9, 10)]],
     tod |-> (DigitsValue[SubSeq(str, 12, 13)] * 60
                 + DigitsValue[SubSeq(str, 15, 16)]) * 60
                 + DigitsValue[SubSeq(str, 18, 19)]]

\* new Date(str + 'T00:00:00') for str = YYYY-MM-DD: local midnight of that day
ParseLocalMidnight(str) == ParseIso[str \o TimeStr]

-----------------------------------------------------------------------------
(* The oracles: lunar-javascript.  What they answer is not in the component; *)
(* a table is a function over some days with one answer for all other days. *)

NoHoliday == [present |-> FALSE, work |-> FALSE, name |-> ""]
Holiday(holidayName, work) == [present |-> TRUE, work |-> work, name |-> holidayName]

TableAt(table, ymd) ==
    IF ymd \in DOMAIN table.inner THEN table.inner[ymd] ELSE table.outer

\* HolidayUtil.getHoliday(date.getFullYear(), date.getMonth() + 1, date.getDate())
getHoliday(date) ==
    CHOOSE h \in {TableAt(holidayUtil, ymd) :
                     ymd \in {DaysFromCivil[getFullYear(date), getMonth(date) + 1,
                                            getDate(date)]}} : TRUE

\* Solar.fromYmd(date.getFullYear(), date.getMonth() + 1, date.getDate()) with
\* solar.getLunar(): what getFestivals, getJieQi, getDayInChinese and
\* getMonthInChinese return for that day
getLunar(date) ==
    CHOOSE l \in {TableAt(lunarLib, ymd) :
                     ymd \in {DaysFromCivil[getFullYear(date), getMonth(date) + 1,
                                            getDate(date)]}} : TRUE

-----------------------------------------------------------------------------
(* getBaseDayData and its cache *)

\* `${dateStr}-${isCurrentMonth}`
CacheKey(dateStr, isCurrentMonth) ==
    dateStr \o DashStr \o (IF isCurrentMonth THEN TrueStr ELSE FalseStr)

\* the record built on a cache miss
ComputeBaseDayData(date, isCurrentMonth) ==
    CHOOSE data \in
        {[date |-> date,
          dateStr |-> format(date),
          isCurrentMonth |-> isCurrentMonth,
          lunarDay |-> IF lunar.dayInChinese = "ChuYi"
                       THEN lunar.monthInChinese \o "Yue"
                       ELSE lunar.dayInChinese,
          festival |-> IF Len(lunar.lunarFestivals) > 0 THEN lunar.lunarFestivals[1]
                       ELSE IF Len(lunar.solarFestivals) > 0 THEN lunar.solarFestivals[1]
                       ELSE IF lunar.jieQi # "" THEN lunar.jieQi
                       ELSE "",
          isBuiltInHoliday |-> IF holiday.present THEN ~holiday.work ELSE FALSE,
          isBuiltInWork |-> IF holiday.present THEN holiday.work ELSE FALSE,
          builtInHolidayName |-> IF holiday.present THEN holiday.name ELSE ""] :
            lunar \in {getLunar(date)}, holiday \in {getHoliday(date)}} : TRUE

\* a cache that holds the last record only
StoreBaseDayDataAlone(cache, cacheKey, data) ==
    [data |-> data, cache |-> (cacheKey :> data)]

\* baseDayCache[cacheKey] = data
StoreBaseDayData(cache, cacheKey, data) ==
    [data |-> data, cache |-> (cacheKey :> data) @@ cache]

\* getBaseDayData(date, isCurrentMonth) run against the cache given: the record
\* returned and the cache afterwards
getBaseDayData(cache, date, isCurrentMonth) ==
    CHOOSE r \in
        {IF cacheKey \in DOMAIN cache
         THEN [data |-> cache[cacheKey], cache |-> cache]
         ELSE CHOOSE stored \in
                  {StoreBaseDayData(cache, cacheKey, data) :
                      data \in {ComputeBaseDayData(date, isCurrentMonth)}} : TRUE :
            cacheKey \in {CacheKey(format(date), isCurrentMonth)}} : TRUE

-----------------------------------------------------------------------------
(* combineDayData *)

\* base.dateStr >= ch.start && base.dateStr <= ch.end
Contains(ch, dateStr) == StrGeq(dateStr, ch.start) /\ StrLeq(dateStr, ch.end)

\* a loop without the break: the last range that contains the date decides
RECURSIVE CombineLoopNoBreak(_, _, _)
CombineLoopNoBreak(b, chs, acc) ==
    IF chs = <<>> THEN acc
    ELSE CombineLoopNoBreak(b, Tail(chs),
             IF Contains(Head(chs), b.dateStr)
             THEN [isHoliday |-> TRUE, isWork |-> FALSE, holidayName |-> Head(chs).name]
             ELSE acc)

\* a loop that takes the name of the range and keeps the workday flag
RECURSIVE CombineLoopKeepWork(_, _, _)
CombineLoopKeepWork(b, chs, acc) ==
    IF chs = <<>> THEN acc
    ELSE IF Contains(Head(chs), b.dateStr)
         THEN [isHoliday |-> TRUE, isWork |-> acc.isWork, holidayName |-> Head(chs).name]
         ELSE CombineLoopKeepWork(b, Tail(chs), acc)

\* the for loop with its break: the first range that contains the date
\* decides, an exhausted list leaves the values it started with
RECURSIVE CombineLoop(_, _, _)
CombineLoop(b, chs, acc) ==
    IF chs = <<>> THEN acc
    ELSE IF Contains(Head(chs), b.dateStr)
         THEN [isHoliday |-> TRUE, isWork |-> FALSE, holidayName |-> Head(chs).name]
         ELSE CombineLoop(b, Tail(chs), acc)

\* { ...base, isHoliday, isWork, holidayName, isMarked }
DayDataOf(b, r, isMarked) ==
    [date |-> b.date,
     dateStr |-> b.dateStr,
     isCurrentMonth |-> b.isCurrentMonth,
     lunarDay |-> b.lunarDay,
     festival |-> b.festival,
     isBuiltInHoliday |-> b.isBuiltInHoliday,
     isBuiltInWork |-> b.isBuiltInWork,
     builtInHolidayName |-> b.builtInHolidayName,
     isHoliday |-> r.isHoliday,
     isWork |-> r.isWork,
     holidayName |-> r.holidayName,
     isMarked |-> isMarked]

\* a merge that forgets the built-in workday flag
combineDayDataNoWork(b, chs, marked) ==
    DayDataOf(b,
              CombineLoop(b, chs, [isHoliday |-> b.isBuiltInHoliday,
                                   isWork |-> FALSE,
                                   holidayName |-> b.builtInHolidayName]),
              b.dateStr \in marked)

combineDayData(b, chs, marked) ==
    DayDataOf(b,
              CombineLoop(b, chs, [isHoliday |-> b.isBuiltInHoliday,
                                   isWork |-> b.isBuiltInWork,
                                   holidayName |-> b.builtInHolidayName]),
              b.dateStr \in marked)

-----------------------------------------------------------------------------
(* MonthView: the memoised days array.  The state of its loops is           *)
(* [daysArr, cache]: the array so far and baseDayCache as the calls to      *)
(* getBaseDayData leave it.                                                 *)

\* daysArr.push(combineDayData(getBaseDayData(d, isCurrentMonth), customHolidays, markedDates))
PushDay(st, d, isCurrentMonth, chs, marked) ==
    CHOOSE r \in
        {[daysArr |-> Append(st.daysArr, combineDayData(got.data, chs, marked)),
          cache |-> got.cache] :
            got \in {getBaseDayData(st.cache, d, isCurrentMonth)}} : TRUE

\* for (let i = startOffset; i > 0; i--): the n-th pass has i = startOffset - n + 1
LeadingDays(st0, year, m, startOffset, chs, marked) ==
    LET Loop[n \in 0..startOffset] ==
            IF n = 0 THEN st0
            ELSE CHOOSE r \in
                     {PushDay(st, NewDate(year, m, 1 - (startOffset - n + 1)), FALSE,
                              chs, marked) : st \in {Loop[n - 1]}} : TRUE
    IN  Loop[startOffset]

\* for (let i = 1; i <= lastDay.getDate(); i++)
CurrentDays(st0, year, m, lastDate, chs, marked) ==
    LET Loop[i \in 0..lastDate] ==
            IF i = 0 THEN st0
            ELSE CHOOSE r \in
                     {PushDay(st, NewDate(year, m, i), TRUE, chs, marked) :
                         st \in {Loop[i - 1]}} : TRUE
    IN  Loop[lastDate]

\* remainingDays = 42 - daysArr.length; for (let i = 1; i <= remainingDays; i++)
TrailingDays(st0, year, m, chs, marked) ==
    LET remainingDays == 42 - Len(st0.daysArr)
        Loop[i \in 0..remainingDays] ==
            IF i = 0 THEN st0
            ELSE CHOOSE r \in
                     {PushDay(st, NewDate(year, m + 1, i), FALSE, chs, marked) :
                         st \in {Loop[i - 1]}} : TRUE
    IN  IF remainingDays >= 1 THEN Loop[remainingDays] ELSE st0

\* an offset taken from the Sunday-first weekday as it is
StartOffsetSundayFirst(firstDayOfWeek) == firstDayOfWeek

\* startOffset = firstDayOfWeek === 0 ? 6 : firstDayOfWeek - 1
StartOffset(firstDayOfWeek) == IF firstDayOfWeek = 0 THEN 6 ELSE firstDayOfWeek - 1

\* the three loops one after the other, from an empty daysArr
DaysOfMonth(cache, year, m, firstDay, lastDay, chs, marked) ==
    CHOOSE r \in
        {TrailingDays(current, year, m, chs, marked) :
            current \in
                {CurrentDays(leading, year, m, getDate(lastDay), chs, marked) :
                    leading \in
                        {LeadingDays([daysArr |-> <<>>, cache |-> cache], year, m,
                                     StartOffset(getDay(firstDay)), chs, marked)}}} : TRUE

\* the callback of useMemo(..., [month, customHolidays, markedDates])
MonthViewDays(cache, monthProp, chs, marked) ==
    CHOOSE r \in
        {DaysOfMonth(cache, year, m, NewDate(year, m, 1), NewDate(year, m + 1, 0),
                     chs, marked) :
            year \in {getFullYear(monthProp)}, m \in {getMonth(monthProp)}} : TRUE

(* MonthView: what days.map computes for the cell at 0-based index idx *)

isHolidayStart(daysArr, idx) ==
    LET day == daysArr[idx + 1]
    IN  day.isHoliday /\ (\/ ~(idx > 0)
                          \/ ~daysArr[idx].isHoliday
                          \/ daysArr[idx].holidayName # day.holidayName)

isHolidayEnd(daysArr, idx) ==
    LET day == daysArr[idx + 1]
    IN  day.isHoliday /\ (\/ ~(idx < Len(daysArr) - 1)
                          \/ ~daysArr[idx + 2].isHoliday
                          \/ daysArr[idx + 2].holidayName # day.holidayName)

isRowStart(day) == getDay(day.date) = 1
isRowEnd(day)   == getDay(day.date) = 0

\* a cell that draws its block edges from the holiday runs alone
CellOfNoRows(daysArr, idx) ==
    [isHolidayStart |-> isHolidayStart(daysArr, idx),
     isHolidayEnd |-> isHolidayEnd(daysArr, idx),
     isRowStart |-> isRowStart(daysArr[idx + 1]),
     isRowEnd |-> isRowEnd(daysArr[idx + 1]),
     blockStart |-> isHolidayStart(daysArr, idx),
     blockEnd |-> isHolidayEnd(daysArr, idx)]

\* a cell that compares only the holiday flags of its neighbours, not the names
CellOfNoNames(daysArr, idx) ==
    LET day == daysArr[idx + 1]
        hs  == day.isHoliday /\ (~(idx > 0) \/ ~daysArr[idx].isHoliday)
        he  == day.isHoliday /\ (~(idx < Len(daysArr) - 1) \/ ~daysArr[idx + 2].isHoliday)
    IN  [isHolidayStart |-> hs,
         isHolidayEnd |-> he,
         isRowStart |-> isRowStart(day),
         isRowEnd |-> isRowEnd(day),
         blockStart |-> hs \/ isRowStart(day),
         blockEnd |-> he \/ isRowEnd(day)]

CellOf(daysArr, idx) ==
    [isHolidayStart |-> isHolidayStart(daysArr, idx),
     isHolidayEnd |-> isHolidayEnd(daysArr, idx),
     isRowStart |-> isRowStart(daysArr[idx + 1]),
     isRowEnd |-> isRowEnd(daysArr[idx + 1]),
     blockStart |-> isHolidayStart(daysArr, idx) \/ isRowStart(daysArr[idx + 1]),
     blockEnd |-> isHolidayEnd(daysArr, idx) \/ isRowEnd(daysArr[idx + 1])]

\* days.map((day, idx) => ...)
MapDays(daysArr) == [k \in 1..Len(daysArr) |-> CellOf(daysArr, k - 1)]

-----------------------------------------------------------------------------
(* date-fns differenceInDays *)

\* -1, 0 or 1 as the local date and time of l is before, at or after that of r
compareLocalAsc(l, r) ==
    IF l.day # r.day THEN (IF l.day < r.day THEN -1 ELSE 1)
    ELSE IF l.tod # r.tod THEN (IF l.tod < r.tod THEN -1 ELSE 1)
    ELSE 0

differenceInCalendarDays(l, r) == l.day - r.day

Abs(n) == IF n < 0 THEN -n ELSE n

\* the number of full days between two dates: the difference in calendar days,
\* less one when the last day is not complete
DaysBetween[l \in Dates, r \in Dates] ==
    LET sign       == compareLocalAsc(l, r)
        difference == Abs(differenceInCalendarDays(l, r))
        shifted    == AddDays(l, -(sign * difference))
        isLastDayNotFull == IF compareLocalAsc(shifted, r) = -sign THEN 1 ELSE 0
    IN  sign * (difference - isLastDayNotFull)

differenceInDays(l, r) == DaysBetween[l, r]

-----------------------------------------------------------------------------
(* holidayProgress *)

\* customHolidays.find(h => dateStr >= h.start && dateStr <= h.end): the
\* position of the first range that holds dateStr, 0 when there is none
FindFrom(chs, dateStr) ==
    LET Scan[i \in 1..(Len(chs) + 1)] ==
            IF i > Len(chs) THEN 0
            ELSE IF Contains(chs[i], dateStr) THEN i
            ELSE Scan[i + 1]
    IN  Scan[1]

\* a find that returns the last range that holds dateStr
FindLast(chs, dateStr) ==
    LET Scan[i \in 0..Len(chs)] ==
            IF i = 0 THEN 0
            ELSE IF Contains(chs[i], dateStr) THEN i
            ELSE Scan[i - 1]
    IN  Scan[Len(chs)]

find(chs, dateStr) == FindFrom(chs, dateStr)

SomeProgress(holidayName, current, remaining) ==
    [some |-> TRUE, name |-> holidayName, current |-> current, remaining |-> remaining]

\* day numbers that start at 0
CustomProgressFromZero(ch, today) ==
    CHOOSE p \in
        {SomeProgress(ch.name, differenceInDays(today, start),
                      (differenceInDays(end, start) + 1) - differenceInDays(today, start)) :
            start \in {ParseLocalMidnight(ch.start)},
            end \in {ParseLocalMidnight(ch.end)}} : TRUE

\* the branch of a custom range ch that holds today
CustomProgress(ch, today) ==
    CHOOSE p \in
        {SomeProgress(ch.name, differenceInDays(today, start) + 1,
                      (differenceInDays(end, start) + 1)
                          - (differenceInDays(today, start) + 1)) :
            start \in {ParseLocalMidnight(ch.start)},
            end \in {ParseLocalMidnight(ch.end)}} : TRUE

\* built-in holidays looked at before the custom ranges
BranchBuiltInFirst(found, h) ==
    IF h.present /\ ~h.work THEN "builtin"
    ELSE IF found # 0 THEN "custom"
    ELSE "none"

\* a built-in entry taken for a holiday whether it is a workday or not
BranchWorkdayIsHoliday(found, h) ==
    IF found # 0 THEN "custom"
    ELSE IF h.present THEN "builtin"
    ELSE "none"

\* if (ch) ... ; if (h && !h.isWork()) ... ; return null
Branch(found, h) ==
    IF found # 0 THEN "custom"
    ELSE IF h.present /\ ~h.work THEN "builtin"
    ELSE "none"

\* a neighbour that continues the holiday whatever its name is
ContinuesAnyName(ph, holidayName) == ph.present /\ ~ph.work

\* ph && !ph.isWork() && ph.getName() === name
Continues(ph, holidayName) == ph.present /\ ~ph.work /\ ph.name = holidayName

\* total, current and the value returned after the two scans
BuiltInProgress(holidayName, from, to, today) ==
    SomeProgress(holidayName, differenceInDays(today, from) + 1,
                 (differenceInDays(to, from) + 1) - (differenceInDays(today, from) + 1))

-----------------------------------------------------------------------------
(* Values the inputs are drawn from *)

\* 2026-02-20, the first day custom ranges are drawn from
Day0 == DaysFromCivil[2026, 2, 20]

HolidayNames == {"A", "B"}
HolidayAnswers ==
    {NoHoliday} \cup {Holiday(n, FALSE) : n \in HolidayNames} \cup {Holiday("A", TRUE)}

LunarPlain    == [dayInChinese |-> "ChuEr", monthInChinese |-> "Zheng",
                  lunarFestivals |-> <<>>, solarFestivals |-> <<>>, jieQi |-> ""]
LunarNewMonth == [dayInChinese |-> "ChuYi", monthInChinese |-> "Zheng",
                  lunarFestivals |-> <<"ChunJie">>, solarFestivals |-> <<"QingRenJie">>,
                  jieQi |-> "YuShui"]
LunarTerm     == [dayInChinese |-> "ChuYi", monthInChinese |-> "Er",
                  lunarFestivals |-> <<>>, solarFestivals |-> <<>>, jieQi |-> "YuShui"]
LunarSolar    == [dayInChinese |-> "ChuSan", monthInChinese |-> "Zheng",
                  lunarFestivals |-> <<>>, solarFestivals |-> <<"QingRenJie">>,
                  jieQi |-> "YuShui"]

ConstTable(answer) == [inner |-> <<>>, outer |-> answer]

\* the lunar oracle is the same in every specification: one day of each kind
LunarTable ==
    [inner |-> [d \in Day0..(Day0 + 2) |->
                   IF d = Day0 THEN LunarNewMonth
                   ELSE IF d = Day0 + 1 THEN LunarTerm ELSE LunarSolar],
     outer |-> LunarPlain]

RangeDays == Day0..(Day0 + 1)
MidnightOf(dayNum) == [day |-> dayNum, tod |-> 0]
DateKey(dayNum) == format(MidnightOf(dayNum))

\* every range over the range days, the reversed ones (end < start) included
RangesOver(dayNums, names) ==
    {[name |-> n, start |-> DateKey(s), end |-> DateKey(e)] :
        n \in names, s \in dayNums, e \in dayNums}

RECURSIVE ListsUpTo(_, _)
ListsUpTo(S, n) ==
    IF n = 0 THEN {<<>>}
    ELSE LET shorter == ListsUpTo(S, n - 1)
         IN  shorter \cup {Append(l, x) : l \in {s \in shorter : Len(s) = n - 1}, x \in S}

NoDate == [day |-> 0, tod |-> 0]
NoBase == [date |-> NoDate, dateStr |-> <<>>, isCurrentMonth |-> FALSE,
           lunarDay |-> "", festival |-> "",
           isBuiltInHoliday |-> FALSE, isBuiltInWork |-> FALSE,
           builtInHolidayName |-> ""]
NoProgress == [some |-> FALSE, name |-> "", current |-> 0, remaining |-> 0]

\* the variables a specification does not use stay at these values
MergeIdle    == base = NoBase /\ dayData = <<>>
GridIdle     == month = NoDate /\ days = <<>> /\ cells = <<>>
ProgressIdle == name = "" /\ startD = NoDate /\ endD = NoDate
                /\ holidayProgress = NoProgress /\ scanned = 0
FormIdle     == selectedDate = NoDate /\ showCustomHolidayForm = FALSE
                /\ holidayNameInput = "" /\ holidayEndInput = <<>>
ViewIdle     == months = <<>> /\ activeMonth = NoDate /\ memo = <<>>
InstallIdle  == installPrompt = 0 /\ events = <<>> /\ calls = <<>>

-----------------------------------------------------------------------------
(* Specification of the merge: one day is resolved, then combined *)

MergeDays == Day0..(Day0 + 2)

InitMerge ==
    /\ holidayUtil \in {ConstTable(a) : a \in HolidayAnswers}
    /\ lunarLib = LunarTable
    /\ baseDayCache = <<>>
    /\ customHolidays \in ListsUpTo(RangesOver(RangeDays, HolidayNames), MaxRanges)
    /\ markedDates \in SUBSET {DateKey(d) : d \in RangeDays}
    /\ currentDate = NoDate
    /\ MergeIdle /\ GridIdle /\ ProgressIdle /\ FormIdle /\ ViewIdle /\ InstallIdle
    /\ pc = "merge"

\* a caller resolves the base record of a day
ResolveBase ==
    /\ pc = "merge"
    /\ \E d \in MergeDays, isCurrentMonth \in BOOLEAN :
          LET r == getBaseDayData(baseDayCache, MidnightOf(d), isCurrentMonth)
          IN  /\ base' = r.data
              /\ baseDayCache' = r.cache
    /\ pc' = "resolved"
    /\ UNCHANGED <<appVars, oracleVars, userVars, dayData, gridVars, progressVars>>

\* and combines it with the user's ranges and marks
Combine ==
    /\ pc = "resolved"
    /\ dayData' = <<combineDayData(base, customHolidays, markedDates)>>
    /\ pc' = "combined"
    /\ UNCHANGED <<appVars, oracleVars, baseDayCache, userVars, base, gridVars, progressVars>>

NextMerge == ResolveBase \/ Combine

SpecMerge == InitMerge /\ [][NextMerge]_vars

\* the day a date key names
KeyDay(str) == ParseLocalMidnight(str).day

\* positions of the custom ranges whose days, both ends included, hold the day
\* of the date
CoveringRanges(date) ==
    {i \in DOMAIN customHolidays :
        /\ KeyDay(customHolidays[i].start) <= date.day
        /\ date.day <= KeyDay(customHolidays[i].end)}

FirstOf(S) == CHOOSE i \in S : \A j \in S : i <= j

\* C1: when some custom range holds the date, the merged record is a holiday,
\* is not a workday and carries the name of the first such range of the list,
\* whatever the built-in flags are and however many ranges overlap.
C1_CustomRangeOverrides ==
    (pc = "combined" /\ CoveringRanges(base.date) # {}) =>
        /\ dayData[1].isHoliday = TRUE
        /\ dayData[1].isWork = FALSE
        /\ dayData[1].holidayName = customHolidays[FirstOf(CoveringRanges(base.date))].name

\* a built-in workday under two overlapping ranges of different names
C1_Witness ==
    /\ pc = "combined"
    /\ base.isBuiltInWork
    /\ Cardinality(CoveringRanges(base.date)) = 2
    /\ customHolidays[1].name # customHolidays[2].name
    /\ dayData[1].holidayName = customHolidays[1].name
    /\ ~dayData[1].isWork

\* C2: a date in no custom range keeps the built-in holiday flag, workday flag
\* and name; and in every case the record is marked exactly when its date key
\* is in the marked set.
C2_BuiltInPassThrough ==
    pc = "combined" =>
        /\ (CoveringRanges(base.date) = {} =>
               /\ dayData[1].isHoliday = base.isBuiltInHoliday
               /\ dayData[1].isWork = base.isBuiltInWork
               /\ dayData[1].holidayName = base.builtInHolidayName)
        /\ (dayData[1].isMarked <=> base.dateStr \in markedDates)

\* an uncovered built-in workday, marked, beside a list that covers other days
C2_Witness ==
    /\ pc = "combined"
    /\ customHolidays # <<>>
    /\ CoveringRanges(base.date) = {}
    /\ base.isBuiltInWork
    /\ dayData[1].isWork
    /\ dayData[1].holidayName = "A"
    /\ dayData[1].isMarked

\* C16: in the base record a day is never both a built-in holiday and a
\* built-in workday, and it is neither when the oracle has no entry for it;
\* in the merged record a day is never both a holiday and a workday, whatever
\* the custom ranges and the marked set are.
C16_HolidayExcludesWork ==
    /\ pc \in {"resolved", "combined"} =>
          /\ ~(base.isBuiltInHoliday /\ base.isBuiltInWork)
          /\ ~getHoliday(base.date).present =>
                (~base.isBuiltInHoliday /\ ~base.isBuiltInWork)
    /\ pc = "combined" => ~(dayData[1].isHoliday /\ dayData[1].isWork)

\* a built-in workday that a custom range turns into a holiday
C16_Witness ==
    /\ pc = "combined"
    /\ getHoliday(base.date).present
    /\ base.isBuiltInWork
    /\ ~base.isBuiltInHoliday
    /\ dayData[1].isHoliday
    /\ ~dayData[1].isWork
    /\ markedDates # {}

-----------------------------------------------------------------------------
(* Specification of the month grid: MonthView computes its days, then       *)
(* renders them                                                             *)

\* 2026-02-22, a Sunday; the row that holds it starts on Monday 2026-02-16
Sunday0 == Day0 + 2

\* the months a grid is built for: those of 2026 and the two Februaries of
\* 2021 (four whole weeks from a Monday) and 2024 (a leap year)
GridMonths ==
    {NewDate(2026, i, 1) : i \in 0..11} \cup {NewDate(2021, 1, 1), NewDate(2024, 1, 1)}

\* built-in holidays: none; a holiday of three days that ends on the Sunday
\* before a workday; two holidays of different names side by side from
\* Tuesday to Friday; an unbroken holiday all over
GridHolidayTables ==
    {ConstTable(NoHoliday),
     [inner |-> [d \in (Sunday0 - 2)..(Sunday0 + 1) |->
                    IF d = Sunday0 + 1 THEN Holiday("A", TRUE) ELSE Holiday("A", FALSE)],
      outer |-> NoHoliday],
     [inner |-> [d \in (Sunday0 + 2)..(Sunday0 + 5) |->
                    IF d <= Sunday0 + 3 THEN Holiday("A", FALSE) ELSE Holiday("B", FALSE)],
      outer |-> NoHoliday],
     ConstTable(Holiday("A", FALSE))}

\* custom ranges: Friday to Monday across a row end, the Monday alone, and a
\* long one over the turn of the month
GridRanges ==
    {[name |-> "A", start |-> DateKey(Sunday0 - 2), end |-> DateKey(Sunday0 + 1)],
     [name |-> "B", start |-> DateKey(Sunday0 + 1), end |-> DateKey(Sunday0 + 1)],
     [name |-> "B", start |-> DateKey(Sunday0 + 3), end |-> DateKey(Sunday0 + 12)]}

InitGrid ==
    /\ holidayUtil \in GridHolidayTables
    /\ lunarLib = LunarTable
    /\ baseDayCache = <<>>
    /\ customHolidays \in ListsUpTo(GridRanges, MaxRanges)
    /\ markedDates \in {{}, {DateKey(Sunday0)}}
    /\ currentDate = NoDate
    /\ MergeIdle /\ GridIdle /\ ProgressIdle /\ FormIdle /\ ViewIdle /\ InstallIdle
    /\ pc = "grid"

\* MonthView is rendered for a month: useMemo computes days
ComputeDays ==
    /\ pc = "grid"
    /\ \E mo \in GridMonths :
          /\ month' = mo
          /\ \E r \in {MonthViewDays(baseDayCache, mo, customHolidays, markedDates)} :
                /\ days' = r.daysArr
                /\ baseDayCache' = r.cache
    /\ pc' = "days"
    /\ UNCHANGED <<appVars, oracleVars, userVars, mergeVars, cells, progressVars>>

\* and days.map computes the flags of every cell
RenderCells ==
    /\ pc = "days"
    /\ cells' = MapDays(days)
    /\ pc' = "rendered"
    /\ UNCHANGED <<appVars, oracleVars, baseDayCache, userVars, mergeVars, month, days,
                   progressVars>>

NextGrid == ComputeDays \/ RenderCells

SpecGrid == InitGrid /\ [][NextGrid]_vars

\* the number of days of month m (1..12) of year y
DaysInMonth(y, m) ==
    IF m = 2
    THEN (IF (y % 4 = 0 /\ y % 100 # 0) \/ y % 400 = 0 THEN 29 ELSE 28)
    ELSE IF m \in {4, 6, 9, 11} THEN 30 ELSE 31

\* the Monday-first column of the 1st of the displayed month
MondayFirstOffset == IF getDay(month) = 0 THEN 6 ELSE getDay(month) - 1

Key_2026_01_26 == <<50, 48, 50, 54, 45, 48, 49, 45, 50, 54>>
Key_2026_02_01 == <<50, 48, 50, 54, 45, 48, 50, 45, 48, 49>>

\* C3: the grid of every month has 42 cells of 42 consecutive dates; the 1st
\* of the month is at index offset (6 for a Sunday, weekday - 1 otherwise), so
\* the first cell is a Monday; isCurrentMonth is true exactly at the indices
\* offset .. offset + daysInMonth - 1, the dates of the month.  For February
\* 2026 the offset is 6, cell 0 is 2026-01-26 and cell 6 is 2026-02-01.
C3_MonthGridShape ==
    pc \in {"days", "rendered"} =>
        LET y   == getFullYear(month)
            m   == getMonth(month) + 1
            off == MondayFirstOffset
        IN  /\ Len(days) = 42
            /\ \A k \in 1..41 : days[k + 1].date.day = days[k].date.day + 1
            /\ \A k \in 1..42 : days[k].dateStr = format(days[k].date)
            /\ days[off + 1].date = month
            /\ getDay(days[1].date) = 1
            /\ \A k \in 1..42 :
                  /\ days[k].isCurrentMonth <=>
                        (off <= k - 1 /\ k - 1 <= off + DaysInMonth(y, m) - 1)
                  /\ days[k].isCurrentMonth <=>
                        (getFullYear(days[k].date) = y /\ getMonth(days[k].date) + 1 = m)
            /\ (y = 2026 /\ m = 2) =>
                  /\ off = 6
                  /\ days[1].dateStr = Key_2026_01_26
                  /\ days[7].dateStr = Key_2026_02_01

\* the grid of February 2026
C3_Witness ==
    /\ pc = "days"
    /\ month = NewDate(2026, 1, 1)
    /\ Len(days) = 42
    /\ days[1].dateStr = Key_2026_01_26
    /\ ~days[6].isCurrentMonth
    /\ days[7].dateStr = Key_2026_02_01
    /\ days[7].isCurrentMonth
    /\ days[34].isCurrentMonth
    /\ ~days[35].isCurrentMonth

SameHoliday(a, b) == a.isHoliday /\ b.isHoliday /\ a.holidayName = b.holidayName

\* C4: a cell's holiday-start flag is true exactly when the cell is a holiday
\* and it is the first cell, or the cell before is no holiday, or is one of
\* another name; the holiday-end flag likewise with the cell after.  So a
\* holiday cell with no neighbour of its own holiday has blockStart and
\* blockEnd, and two adjacent holiday cells of different names have a blockEnd
\* on the first and a blockStart on the second.
C4_HolidayBlockFlags ==
    pc = "rendered" =>
        /\ Len(cells) = Len(days)
        /\ \A k \in 1..Len(days) :
              /\ cells[k].isHolidayStart <=>
                    (days[k].isHoliday /\ (k = 1 \/ ~SameHoliday(days[k - 1], days[k])))
              /\ cells[k].isHolidayEnd <=>
                    (days[k].isHoliday
                        /\ (k = Len(days) \/ ~SameHoliday(days[k + 1], days[k])))
              /\ (/\ days[k].isHoliday
                  /\ (k > 1 => ~SameHoliday(days[k - 1], days[k]))
                  /\ (k < Len(days) => ~SameHoliday(days[k + 1], days[k])))
                    => (cells[k].blockStart /\ cells[k].blockEnd)
        /\ \A k \in 1..(Len(days) - 1) :
              (/\ days[k].isHoliday /\ days[k + 1].isHoliday
               /\ days[k].holidayName # days[k + 1].holidayName)
                    => (cells[k].blockEnd /\ cells[k + 1].blockStart)

\* a grid with a one-day holiday between a plain day and a holiday of another
\* name, and with two holidays of different names meeting inside a row
C4_Witness ==
    /\ pc = "rendered"
    /\ \E k \in 2..41 :
          /\ days[k].isHoliday /\ ~days[k - 1].isHoliday
          /\ days[k + 1].isHoliday /\ days[k + 1].holidayName # days[k].holidayName
          /\ cells[k].blockStart /\ cells[k].blockEnd
    /\ \E k \in 1..41 :
          /\ days[k].isHoliday /\ days[k + 1].isHoliday
          /\ days[k].holidayName # days[k + 1].holidayName
          /\ ~cells[k].isRowEnd /\ ~cells[k + 1].isRowStart
          /\ cells[k].blockEnd /\ cells[k + 1].blockStart

\* C5: a row boundary forces a block edge: every cell of column 0 is a Monday
\* and has blockStart, every cell of column 6 is a Sunday and has blockEnd, so
\* a holiday that runs from a Sunday cell into the Monday cell after it is cut
\* in two and no joined block spans two rows.
C5_RowBoundaryEdges ==
    pc = "rendered" =>
        /\ \A k \in 1..Len(cells) :
              /\ ((k - 1) % 7 = 0) => (getDay(days[k].date) = 1 /\ cells[k].blockStart)
              /\ ((k - 1) % 7 = 6) => (getDay(days[k].date) = 0 /\ cells[k].blockEnd)
        /\ \A k \in 1..(Len(cells) - 1) :
              ((k - 1) \div 7 # k \div 7) => (cells[k].blockEnd /\ cells[k + 1].blockStart)

\* one holiday running from a Sunday cell into the next row's Monday cell
C5_Witness ==
    /\ pc = "rendered"
    /\ \E k \in 1..41 :
          /\ (k - 1) % 7 = 6
          /\ SameHoliday(days[k], days[k + 1])
          /\ ~cells[k].isHolidayEnd /\ ~cells[k + 1].isHolidayStart
          /\ cells[k].blockEnd /\ cells[k + 1].blockStart

-----------------------------------------------------------------------------
(* Specification of holidayProgress: the custom branch, or the two scans of *)
(* the built-in branch, one neighbour day at a step                        *)

\* new Date('2026-02-22T23:16:49-08:00') in local time: Sunday 2026-02-22,
\* 23:16:49 where the offset is -08:00, Monday 2026-02-23, 15:16:49 where it
\* is +08:00
CurrentDates == {[day |-> Sunday0, tod |-> (23 * 60 + 16) * 60 + 49],
                 [day |-> Sunday0 + 1, tod |-> (15 * 60 + 16) * 60 + 49]}

\* the days around the reference date whose built-in answer varies
ProgressWindow == (Sunday0 - 1)..(Sunday0 + 2)

ProgressHolidayTables ==
    {[inner |-> f, outer |-> o] :
        f \in [ProgressWindow -> HolidayAnswers],
        o \in {NoHoliday, Holiday("A", FALSE)}}

\* custom ranges: 2026-02-20 to 2026-02-23, the Sunday alone and the Monday
\* alone
ProgressRanges ==
    {[name |-> "A", start |-> DateKey(Day0), end |-> DateKey(Day0 + 3)],
     [name |-> "B", start |-> DateKey(Sunday0), end |-> DateKey(Sunday0)],
     [name |-> "B", start |-> DateKey(Sunday0 + 1), end |-> DateKey(Sunday0 + 1)]}

InitProgress ==
    /\ holidayUtil \in ProgressHolidayTables
    /\ lunarLib = LunarTable
    /\ baseDayCache = <<>>
    /\ customHolidays \in ListsUpTo(ProgressRanges, MaxRanges)
    /\ markedDates = {}
    /\ currentDate \in CurrentDates
    /\ MergeIdle /\ GridIdle /\ ProgressIdle /\ FormIdle /\ ViewIdle /\ InstallIdle
    /\ pc = "progress"

\* lines 308-323 and 352: the custom branch, the start of the built-in branch,
\* or null
BeginProgress ==
    /\ pc = "progress"
    /\ \E found \in {find(customHolidays, format(currentDate))},
          h \in {getHoliday(currentDate)} :
          \E branch \in {Branch(found, h)} :
             /\ branch = "custom" =>
                   /\ holidayProgress' = CustomProgress(customHolidays[found], currentDate)
                   /\ pc' = "done"
                   /\ UNCHANGED <<name, startD>>
             /\ branch = "builtin" =>
                   /\ name' = h.name
                   /\ startD' = currentDate
                   /\ pc' = "scanBack"
                   /\ UNCHANGED holidayProgress
             /\ branch = "none" =>
                   /\ holidayProgress' = NoProgress
                   /\ pc' = "done"
                   /\ UNCHANGED <<name, startD>>
    /\ UNCHANGED <<appVars, oracleVars, baseDayCache, userVars, mergeVars, gridVars, endD, scanned>>

\* one pass of the first while (true), lines 324-333; its break goes on to
\* line 335
ScanBack ==
    /\ pc = "scanBack"
    /\ scanned < MaxScan
    /\ \E ph \in {getHoliday(AddDays(startD, -1))} :
          IF Continues(ph, name)
          THEN /\ startD' = AddDays(startD, -1)
               /\ scanned' = scanned + 1
               /\ UNCHANGED <<endD, pc>>
          ELSE /\ endD' = currentDate
               /\ scanned' = 0
               /\ pc' = "scanFwd"
               /\ UNCHANGED startD
    /\ UNCHANGED <<appVars, oracleVars, baseDayCache, userVars, mergeVars, gridVars, name,
                   holidayProgress>>

\* one pass of the second while (true), lines 336-345; its break goes on to
\* lines 347-349
ScanForward ==
    /\ pc = "scanFwd"
    /\ scanned < MaxScan
    /\ \E nh \in {getHoliday(AddDays(endD, 1))} :
          IF Continues(nh, name)
          THEN /\ endD' = AddDays(endD, 1)
               /\ scanned' = scanned + 1
               /\ UNCHANGED <<holidayProgress, pc>>
          ELSE /\ holidayProgress' = BuiltInProgress(name, startD, endD, currentDate)
               /\ pc' = "done"
               /\ UNCHANGED <<endD, scanned>>
    /\ UNCHANGED <<appVars, oracleVars, baseDayCache, userVars, mergeVars, gridVars, name, startD>>

NextProgress == BeginProgress \/ ScanBack \/ ScanForward

SpecProgress == InitProgress /\ [][NextProgress]_vars

\* the first custom range that holds the reference date
ActiveRange == customHolidays[FirstOf(CoveringRanges(currentDate))]

Key_2026_02_20 == <<50, 48, 50, 54, 45, 48, 50, 45, 50, 48>>
Key_2026_02_22 == <<50, 48, 50, 54, 45, 48, 50, 45, 50, 50>>
Key_2026_02_23 == <<50, 48, 50, 54, 45, 48, 50, 45, 50, 51>>

\* C6: when a custom range holds the reference date, the progress is that of
\* the first such range: its name, dayIndex = (reference date - start) + 1 and
\* remaining = (end - start + 1) - dayIndex, with 1 <= dayIndex <= end - start
\* + 1 and remaining >= 0; from 2026-02-20 to 2026-02-23 with the reference
\* date 2026-02-22 it is day 3 with 1 remaining.
C6_CustomProgress ==
    (pc = "done" /\ CoveringRanges(currentDate) # {}) =>
        LET s == KeyDay(ActiveRange.start)
            e == KeyDay(ActiveRange.end)
            p == holidayProgress
        IN  /\ p.some
            /\ p.name = ActiveRange.name
            /\ p.current = (currentDate.day - s) + 1
            /\ p.remaining = (e - s + 1) - p.current
            /\ 1 <= p.current /\ p.current <= e - s + 1
            /\ p.remaining >= 0
            /\ (/\ ActiveRange.start = Key_2026_02_20
                /\ ActiveRange.end = Key_2026_02_23
                /\ format(currentDate) = Key_2026_02_22)
                  => (p.current = 3 /\ p.remaining = 1)

\* the range 2026-02-20 to 2026-02-23 on 2026-02-22, behind a range that does
\* not hold the date
C6_Witness ==
    /\ pc = "done"
    /\ format(currentDate) = Key_2026_02_22
    /\ Len(customHolidays) = 2
    /\ CoveringRanges(currentDate) = {2}
    /\ customHolidays[2].start = Key_2026_02_20
    /\ customHolidays[2].end = Key_2026_02_23
    /\ holidayProgress = [some |-> TRUE, name |-> "A", current |-> 3, remaining |-> 1]

\* the built-in answer for a day
BuiltInAt(dayNum) == TableAt(holidayUtil, dayNum)

\* C7: a custom range goes before the built-in holiday: when a custom range
\* holds the reference date the built-in scan is never entered and the name,
\* dayIndex and remaining returned are those of the custom range, whatever
\* the built-in answers are.
C7_CustomBeforeBuiltIn ==
    CoveringRanges(currentDate) # {} =>
        /\ pc \in {"progress", "done"}
        /\ name = "" /\ startD = NoDate /\ endD = NoDate /\ scanned = 0
        /\ pc = "done" =>
              holidayProgress =
                  [some |-> TRUE,
                   name |-> ActiveRange.name,
                   current |-> currentDate.day - KeyDay(ActiveRange.start) + 1,
                   remaining |-> KeyDay(ActiveRange.end) - currentDate.day]

\* a one-day custom range inside a built-in holiday of three days of another name
C7_Witness ==
    /\ pc = "done"
    /\ CoveringRanges(currentDate) # {}
    /\ ActiveRange.start = ActiveRange.end
    /\ \A d \in (currentDate.day - 1)..(currentDate.day + 1) :
          BuiltInAt(d) = Holiday("A", FALSE)
    /\ holidayProgress = [some |-> TRUE, name |-> "B", current |-> 1, remaining |-> 0]

\* C8: the progress is none exactly when no custom range holds the reference
\* date and the reference date has no built-in holiday (no entry, or a
\* workday entry); in every other case a progress is returned.
C8_NoneWithoutHoliday ==
    pc = "done" =>
        (~holidayProgress.some <=>
            /\ CoveringRanges(currentDate) = {}
            /\ (~BuiltInAt(currentDate.day).present \/ BuiltInAt(currentDate.day).work))

\* a built-in workday beside custom ranges that do not hold the date
C8_Witness ==
    /\ pc = "done"
    /\ customHolidays # <<>>
    /\ CoveringRanges(currentDate) = {}
    /\ BuiltInAt(currentDate.day) = Holiday("A", TRUE)
    /\ BuiltInAt(currentDate.day - 1) = Holiday("A", FALSE)
    /\ holidayProgress = NoProgress

\* a day of the built-in holiday the reference date is in
InRun(dayNum) ==
    /\ BuiltInAt(dayNum).present
    /\ ~BuiltInAt(dayNum).work
    /\ BuiltInAt(dayNum).name = BuiltInAt(currentDate.day).name

\* C9: with no custom range on the reference date and a built-in holiday N on
\* it, the progress counts within the longest run of consecutive days around
\* the reference date that are all built-in holidays named N and no workdays:
\* dayIndex = (reference date - first day of the run) + 1, remaining = length
\* of the run - dayIndex, 1 <= dayIndex <= length and remaining >= 0.
C9_BuiltInRun ==
    (/\ pc = "done"
     /\ CoveringRanges(currentDate) = {}
     /\ InRun(currentDate.day)) =>
        LET p        == holidayProgress
            runStart == currentDate.day - p.current + 1
            runEnd   == currentDate.day + p.remaining
        IN  /\ p.some
            /\ p.name = BuiltInAt(currentDate.day).name
            /\ 1 <= p.current /\ p.current <= runEnd - runStart + 1
            /\ p.remaining >= 0
            /\ \A d \in runStart..runEnd : InRun(d)
            /\ ~InRun(runStart - 1)
            /\ ~InRun(runEnd + 1)

\* a run of three days that ends where a holiday of another name begins, the
\* reference date in its middle
C9_Witness ==
    /\ pc = "done"
    /\ customHolidays # <<>>
    /\ CoveringRanges(currentDate) = {}
    /\ InRun(currentDate.day - 1) /\ InRun(currentDate.day + 1)
    /\ ~BuiltInAt(currentDate.day - 2).present
    /\ BuiltInAt(currentDate.day + 2) = Holiday("B", FALSE)
    /\ holidayProgress = [some |-> TRUE, name |-> "A", current |-> 2, remaining |-> 1]

\* C10: the outward scan is bounded: neither loop goes over more than
\* SanityBound neighbour days, and a holiday longer than that yields no
\* progress, so the computation always ends.
C10_ScanIsBounded ==
    /\ pc \in {"scanBack", "scanFwd"} => scanned <= SanityBound
    /\ (pc = "done" /\ holidayProgress.some /\ CoveringRanges(currentDate) = {}) =>
          (holidayProgress.current - 1 <= SanityBound
              /\ holidayProgress.remaining <= SanityBound)

-----------------------------------------------------------------------------
(* Calendar: the month list, and what a render computes.  A CustomHoliday   *)
(* is [name, start, end]; its id (Date.now().toString()) is read nowhere in *)
(* the component and is left out.                                           *)

\* date-fns startOfMonth
startOfMonth(date) == NewDate(getFullYear(date), getMonth(date), 1)

\* date-fns addMonths: the day of the month is kept unless the target month
\* is shorter, the time of day is kept
addMonths(date, amount) ==
    CHOOSE r \in
        {[day |-> NewDate(y, m + amount, IF d >= last THEN last ELSE d).day,
          tod |-> date.tod] :
            y \in {getFullYear(date)}, m \in {getMonth(date)}, d \in {getDate(date)},
            last \in {getDate(NewDate(getFullYear(date), getMonth(date) + amount + 1, 0))}} :
        TRUE

\* date-fns subMonths
subMonths(date, amount) == addMonths(date, 0 - amount)

\* for (let i = -12; i <= 12; i++) push(...): the k-th element has
\* i = k - MonthsAround - 1
MonthsList(date) ==
    [k \in 1..(2 * MonthsAround + 1) |->
        LET i == k - MonthsAround - 1
        IN  IF i = 0 THEN startOfMonth(date)
            ELSE IF i < 0 THEN subMonths(startOfMonth(date), Abs(i))
            ELSE addMonths(startOfMonth(date), i)]

FormatMonth[c \in CivilDates] == PadStart[Digits[c.y], 4] \o DashStr \o PadStart[Digits[c.m], 2]

\* format(month, 'yyyy-MM'), the React key of a MonthView
monthKey(date) == FormatMonth[CivilFromDays[date.day]]

\* a memo that looks at the month only
DepsEqualMonthOnly(entry, monthProp, chs, marked) == entry.month = monthProp

\* useMemo's comparison of [month, customHolidays, markedDates] with the
\* dependencies of the previous render
DepsEqual(entry, monthProp, chs, marked) ==
    /\ entry.month = monthProp
    /\ entry.customHolidays = chs
    /\ entry.markedDates = marked

\* the days of one MonthView: the memoised array when the MonthView of this
\* key was rendered with the same dependencies, a new array otherwise.
\* st = [memo, cache] as the MonthViews rendered before leave them
UseMemoDays(st, prevMemo, monthProp, chs, marked) ==
    LET hits == {i \in DOMAIN prevMemo :
                    /\ prevMemo[i].key = monthKey(monthProp)
                    /\ DepsEqual(prevMemo[i], monthProp, chs, marked)}
    IN  IF hits # {}
        THEN [memo |-> Append(st.memo, prevMemo[CHOOSE i \in hits : TRUE]),
              cache |-> st.cache]
        ELSE CHOOSE r \in
                 {[memo |-> Append(st.memo, [key |-> monthKey(monthProp),
                                             month |-> monthProp,
                                             customHolidays |-> chs,
                                             markedDates |-> marked,
                                             days |-> got.daysArr]),
                   cache |-> got.cache] :
                     got \in {MonthViewDays(st.cache, monthProp, chs, marked)}} : TRUE

\* months.map((month) => <MonthView ... />)
MonthViews(st0, mths, prevMemo, chs, marked) ==
    LET Loop[k \in 0..Len(mths)] ==
            IF k = 0 THEN st0
            ELSE CHOOSE r \in
                     {UseMemoDays(st, prevMemo, mths[k], chs, marked) :
                         st \in {Loop[k - 1]}} : TRUE
    IN  Loop[Len(mths)]

\* selectedBaseData = selectedDate ? getBaseDayData(selectedDate, true) : null
SelectedBaseData(cache, sel) ==
    IF sel = NoDate THEN [data |-> NoBase, cache |-> cache]
    ELSE getBaseDayData(cache, sel, TRUE)

\* one render of Calendar with the state given: selectedBaseData, then the
\* MonthViews in the order of the month list
Rendered(cache, sel, mths, prevMemo, chs, marked) ==
    CHOOSE r \in
        {CHOOSE q \in
             {[base |-> sb.data, cache |-> st.cache, memo |-> st.memo] :
                 st \in {MonthViews([memo |-> <<>>, cache |-> sb.cache], mths,
                                    prevMemo, chs, marked)}} : TRUE :
            sb \in {SelectedBaseData(cache, sel)}} : TRUE

\* the render that follows a change of state
ReRender(sel, mths, prevMemo, chs, marked) ==
    \E r \in {Rendered(baseDayCache, sel, mths, prevMemo, chs, marked)} :
        /\ base' = r.base
        /\ baseDayCache' = r.cache
        /\ memo' = r.memo

-----------------------------------------------------------------------------
(* Calendar: the effect that fills the month list and the event handlers.   *)
(* Each handler is followed by the render its change of state causes.  pc   *)
(* is "mounting" until the effect has run and names the handler that ran    *)
(* last afterwards.                                                         *)

\* useEffect(() => { ... setMonths(initialMonths) }, [currentDate])
initMonths ==
    /\ pc = "mounting"
    /\ \E mths \in {MonthsList(currentDate)} :
          /\ months' = mths
          /\ ReRender(selectedDate, mths, <<>>, customHolidays, markedDates)
    /\ pc' = "initMonths"
    /\ UNCHANGED <<userVars, formVars, activeMonth, dayData, gridVars, progressVars,
                   pwaVars, oracleVars>>

\* jumpToMonth(date): every month of the new list is a new Date, so no
\* MonthView meets the dependencies of its previous render
jumpToMonth(date) ==
    /\ pc # "mounting"
    /\ activeMonth' = date
    /\ \E mths \in {MonthsList(date)} :
          /\ months' = mths
          /\ ReRender(selectedDate, mths, <<>>, customHolidays, markedDates)
    /\ pc' = "jumpToMonth"
    /\ UNCHANGED <<userVars, formVars, dayData, gridVars, progressVars, pwaVars,
                   oracleVars>>

\* the "today" button: jumpToMonth(currentDate); setSelectedDate(currentDate)
onTodayClick ==
    /\ pc # "mounting"
    /\ activeMonth' = currentDate
    /\ selectedDate' = currentDate
    /\ \E mths \in {MonthsList(currentDate)} :
          /\ months' = mths
          /\ ReRender(currentDate, mths, <<>>, customHolidays, markedDates)
    /\ pc' = "onTodayClick"
    /\ UNCHANGED <<userVars, showCustomHolidayForm, holidayNameInput, holidayEndInput,
                   dayData, gridVars, progressVars, pwaVars, oracleVars>>

\* onDayClick(date): setSelectedDate(date); setShowCustomHolidayForm(false)
onDayClick(date) ==
    /\ pc # "mounting"
    /\ selectedDate' = date
    /\ showCustomHolidayForm' = FALSE
    /\ ReRender(date, months, memo, customHolidays, markedDates)
    /\ pc' = "onDayClick"
    /\ UNCHANGED <<userVars, holidayNameInput, holidayEndInput, months, activeMonth,
                   dayData, gridVars, progressVars, pwaVars, oracleVars>>

\* the overlay and the close button of the sheet: setSelectedDate(null)
closeSheet ==
    /\ pc # "mounting"
    /\ selectedDate # NoDate
    /\ selectedDate' = NoDate
    /\ ReRender(NoDate, months, memo, customHolidays, markedDates)
    /\ pc' = "closeSheet"
    /\ UNCHANGED <<userVars, showCustomHolidayForm, holidayNameInput, holidayEndInput,
                   months, activeMonth, dayData, gridVars, progressVars, pwaVars,
                   oracleVars>>

\* the buttons that open and cancel the form: setShowCustomHolidayForm(show)
setShowCustomHolidayForm(show) ==
    /\ pc # "mounting"
    /\ selectedDate # NoDate
    /\ showCustomHolidayForm # show
    /\ showCustomHolidayForm' = show
    /\ pc' = "setShowCustomHolidayForm"
    /\ UNCHANGED <<userVars, selectedDate, holidayNameInput, holidayEndInput, base,
                   baseDayCache, viewVars, dayData, gridVars, progressVars, pwaVars,
                   oracleVars>>

\* onChange of the name field of the open form
setHolidayNameInput(value) ==
    /\ pc # "mounting"
    /\ selectedDate # NoDate /\ showCustomHolidayForm
    /\ holidayNameInput' = value
    /\ pc' = "setHolidayNameInput"
    /\ UNCHANGED <<userVars, selectedDate, showCustomHolidayForm, holidayEndInput, base,
                   baseDayCache, viewVars, dayData, gridVars, progressVars, pwaVars,
                   oracleVars>>

\* onChange of the end date field of the open form
setHolidayEndInput(value) ==
    /\ pc # "mounting"
    /\ selectedDate # NoDate /\ showCustomHolidayForm
    /\ holidayEndInput' = value
    /\ pc' = "setHolidayEndInput"
    /\ UNCHANGED <<userVars, selectedDate, showCustomHolidayForm, holidayNameInput, base,
                   baseDayCache, viewVars, dayData, gridVars, progressVars, pwaVars,
                   oracleVars>>

\* a toggle that only ever adds
ToggleSetAddOnly(prev, dateStr) == prev \cup {dateStr}

\* the updater of toggleMark: a copy of prev without dateStr when prev has
\* it, with dateStr when it has not
ToggleSet(prev, dateStr) ==
    IF dateStr \in prev THEN prev \ {dateStr} ELSE prev \cup {dateStr}

\* toggleMark(date)
toggleMark(date) ==
    /\ pc # "mounting"
    /\ \E next \in {ToggleSet(markedDates, format(date))} :
          /\ markedDates' = next
          /\ ReRender(selectedDate, months, memo, customHolidays, next)
    /\ pc' = "toggleMark"
    /\ UNCHANGED <<customHolidays, currentDate, formVars, months, activeMonth, dayData,
                   gridVars, progressVars, pwaVars, oracleVars>>

\* the button of the sheet: onClick={() => toggleMark(selectedDate)}
onMarkClick ==
    /\ selectedDate # NoDate /\ ~showCustomHolidayForm
    /\ toggleMark(selectedDate)

\* a gate that does not compare the end with the start
RejectsEmptyOnly(sel, nameInput, endInput) ==
    sel = NoDate \/ nameInput = "" \/ endInput = <<>>

\* the two early returns of handleSaveCustomHoliday
Rejects(sel, nameInput, endInput) ==
    \/ sel = NoDate \/ nameInput = "" \/ endInput = <<>>
    \/ StrLess[endInput, format(sel)]

\* a list that receives the new range at its head
PrependHoliday(prev, newHoliday) == <<newHoliday>> \o prev

\* setCustomHolidays(prev => [...prev, newHoliday])
AppendHoliday(prev, newHoliday) == Append(prev, newHoliday)

\* handleSaveCustomHoliday, whether or not the form shows its button enabled;
\* the model accepts a range while the list is shorter than MaxRanges
handleSaveCustomHoliday ==
    /\ pc # "mounting"
    /\ IF Rejects(selectedDate, holidayNameInput, holidayEndInput)
       THEN UNCHANGED <<customHolidays, showCustomHolidayForm, holidayNameInput,
                        holidayEndInput, base, baseDayCache, memo>>
       ELSE /\ Len(customHolidays) < MaxRanges
            /\ \E next \in {AppendHoliday(customHolidays,
                                          [name |-> holidayNameInput,
                                           start |-> format(selectedDate),
                                           end |-> holidayEndInput])} :
                  /\ customHolidays' = next
                  /\ ReRender(selectedDate, months, memo, next, markedDates)
            /\ showCustomHolidayForm' = FALSE
            /\ holidayNameInput' = ""
            /\ holidayEndInput' = <<>>
    /\ pc' = "handleSaveCustomHoliday"
    /\ UNCHANGED <<markedDates, currentDate, selectedDate, months, activeMonth, dayData,
                   gridVars, progressVars, pwaVars, oracleVars>>

-----------------------------------------------------------------------------
(* Specification of the sheet and its form: days are selected, marks are    *)
(* toggled, the form is opened, filled in, cancelled and saved              *)

\* the reference date of the component in the time zone it names
Today == [day |-> Sunday0, tod |-> (23 * 60 + 16) * 60 + 49]

\* the days clicked: Sunday 2026-02-22 and the Monday after it
FormDays == {MidnightOf(Sunday0), MidnightOf(Sunday0 + 1)}

\* what the name field is set to
FormNames == {"", "A"}

\* what the end date field is set to
FormEnds == {<<>>, DateKey(Sunday0), DateKey(Sunday0 + 1)}

InitForm ==
    /\ holidayUtil = [inner |-> [d \in {Sunday0} |-> Holiday("B", TRUE)],
                      outer |-> NoHoliday]
    /\ lunarLib = LunarTable
    /\ baseDayCache = <<>>
    /\ customHolidays = <<>>
    /\ markedDates = {}
    /\ currentDate = Today
    /\ MergeIdle /\ GridIdle /\ ProgressIdle /\ FormIdle /\ ViewIdle /\ InstallIdle
    /\ pc = "idle"

NextForm ==
    \/ \E d \in FormDays : onDayClick(d)
    \/ closeSheet
    \/ \E show \in BOOLEAN : setShowCustomHolidayForm(show)
    \/ \E v \in FormNames : setHolidayNameInput(v)
    \/ \E v \in FormEnds : setHolidayEndInput(v)
    \/ onMarkClick
    \/ handleSaveCustomHoliday

SpecForm == InitForm /\ [][NextForm]_vars

\* the marked set with the membership of one key flipped
Flipped(marked, key) == (marked \ {key}) \cup ({key} \ marked)

\* C11: a toggle flips the membership of the key of its date in the marked
\* set and changes no other key and no custom range; from every marked set
\* two toggles of one date give the set back, and toggles of two dates give
\* the same set in either order.
C11_ToggleMarkFlips ==
    [][/\ pc' = "toggleMark" =>
             /\ markedDates' = Flipped(markedDates, format(selectedDate))
             /\ customHolidays' = customHolidays
       /\ \A d1 \in FormDays, d2 \in FormDays :
             /\ ToggleSet(ToggleSet(markedDates', format(d1)), format(d1)) = markedDates'
             /\ ToggleSet(ToggleSet(markedDates', format(d1)), format(d2))
                    = ToggleSet(ToggleSet(markedDates', format(d2)), format(d1))]_vars

\* the Sunday was marked and unmarked again while the Monday stayed marked
\* beside a custom range
C11_Witness ==
    /\ pc = "toggleMark"
    /\ selectedDate = MidnightOf(Sunday0)
    /\ markedDates = {DateKey(Sunday0 + 1)}
    /\ customHolidays # <<>>

\* the inputs of a save that the form must not accept: no selected date, no
\* name, no end date, or an end date on a day before the selected one
BadSave ==
    \/ selectedDate = NoDate
    \/ holidayNameInput = ""
    \/ holidayEndInput = <<>>
    \/ KeyDay(holidayEndInput) < selectedDate.day

\* C12: a save with no selected date, an empty name, an empty end date or an
\* end date earlier than the selected date returns without adding a range:
\* the list of custom ranges, the marked set, the inputs of the form, the
\* flag that shows the form and the selected date stay as they were; and in
\* each of these cases the handler does return.
C12_BadSaveRejected ==
    [][/\ (pc' = "handleSaveCustomHoliday" /\ BadSave) =>
              UNCHANGED <<customHolidays, markedDates, holidayNameInput,
                          holidayEndInput, showCustomHolidayForm, selectedDate>>
       /\ (pc # "mounting" /\ BadSave) => ENABLED handleSaveCustomHoliday]_vars

\* a save of the open form with a name, for the Monday, with the Sunday
\* before it as the end, after a range had been saved and a day marked
C12_Witness ==
    /\ pc = "handleSaveCustomHoliday"
    /\ selectedDate = MidnightOf(Sunday0 + 1)
    /\ holidayNameInput = "A"
    /\ holidayEndInput = DateKey(Sunday0)
    /\ showCustomHolidayForm
    /\ Len(customHolidays) = 1
    /\ markedDates # {}

\* a range as the form may create it: a name, and no end before the start
WellFormed(ch) == ch.name # "" /\ KeyDay(ch.start) <= KeyDay(ch.end)

\* C15: every range of the list has a name and does not end before it
\* starts; a step that changes the list appends exactly one range to its end
\* and leaves the ranges before it as they were and where they were; the
\* start of the new range is the date selected when it was saved, its name
\* and end are the inputs of the form at that moment.
C15_RangesAppendOnly ==
    [][/\ \A i \in DOMAIN customHolidays' : WellFormed(customHolidays'[i])
       /\ customHolidays' # customHolidays =>
             /\ pc' = "handleSaveCustomHoliday"
             /\ Len(customHolidays') = Len(customHolidays) + 1
             /\ SubSeq(customHolidays', 1, Len(customHolidays)) = customHolidays
             /\ selectedDate # NoDate
             /\ customHolidays'[Len(customHolidays')] =
                    [name |-> holidayNameInput,
                     start |-> DateKey(selectedDate.day),
                     end |-> holidayEndInput]]_vars

\* the same range saved twice, then a save for the Monday refused because
\* the end date field still held the Sunday picked for the earlier range
C15_Witness ==
    /\ pc = "handleSaveCustomHoliday"
    /\ Len(customHolidays) = 2
    /\ customHolidays[1] = customHolidays[2]
    /\ customHolidays[1].start = DateKey(Sunday0)
    /\ selectedDate = MidnightOf(Sunday0 + 1)
    /\ holidayNameInput = "A"
    /\ holidayEndInput = DateKey(Sunday0)

-----------------------------------------------------------------------------
(* Specification of the displayed months: the month list is filled, months  *)
(* are jumped to, and days are selected, marked and made custom holidays    *)
(* while the grids are on display                                           *)

\* the day clicked in a grid: Sunday 2026-02-22
ViewDays == {MidnightOf(Sunday0)}

\* the month picker set to 2026-04: new Date('2026-04-01') is midnight UTC,
\* 16:00 of 2026-03-31 in the time zone of the reference date
ViewJumps == {[day |-> DaysFromCivil[2026, 3, 31], tod |-> 16 * 60 * 60]}

ViewNames == {"A"}
ViewEnds == {DateKey(Sunday0)}

\* the Sunday is a built-in workday named "B"
InitView ==
    /\ holidayUtil = [inner |-> [d \in {Sunday0} |-> Holiday("B", TRUE)],
                      outer |-> NoHoliday]
    /\ lunarLib = LunarTable
    /\ baseDayCache = <<>>
    /\ customHolidays = <<>>
    /\ markedDates = {}
    /\ currentDate = Today
    /\ MergeIdle /\ GridIdle /\ ProgressIdle /\ FormIdle /\ InstallIdle
    /\ months = <<>> /\ activeMonth = currentDate /\ memo = <<>>
    /\ pc = "mounting"

NextView ==
    \/ initMonths
    \/ \E d \in ViewJumps : jumpToMonth(d)
    \/ onTodayClick
    \/ \E d \in ViewDays : onDayClick(d)
    \/ \E show \in BOOLEAN : setShowCustomHolidayForm(show)
    \/ \E v \in ViewNames : setHolidayNameInput(v)
    \/ \E v \in ViewEnds : setHolidayEndInput(v)
    \/ onMarkClick
    \/ handleSaveCustomHoliday

SpecView == InitView /\ [][NextView]_vars

\* the dates whose cached facts are compared with the oracle's answers
ProbeDates == {MidnightOf(Sunday0), MidnightOf(Sunday0 + 1), Today}

\* the built-in flags and name of a record are those of the oracle's answer
\* for its date
BuiltInFacts(b) ==
    LET h == getHoliday(b.date)
    IN  /\ b.isBuiltInHoliday = (h.present /\ ~h.work)
        /\ b.isBuiltInWork = (h.present /\ h.work)
        /\ b.builtInHolidayName = (IF h.present THEN h.name ELSE "")

\* C13: no step removes a key from the base-day cache or changes the record
\* stored under a key; the stored records carry the built-in flags and name
\* of the holiday oracle whatever the custom ranges and marks are; a call of
\* getBaseDayData for a key the cache holds returns the stored record and
\* leaves the cache as it is, so two calls with one key return one record.
C13_CacheWriteOnce ==
    [][/\ \A k \in DOMAIN baseDayCache :
             k \in DOMAIN baseDayCache' /\ baseDayCache'[k] = baseDayCache[k]
       /\ \A d \in ProbeDates, cur \in BOOLEAN :
             LET k == CacheKey(format(d), cur)
             IN  k \in DOMAIN baseDayCache' =>
                     /\ BuiltInFacts(baseDayCache'[k])
                     /\ baseDayCache'[k].isCurrentMonth = cur
                     /\ getBaseDayData(baseDayCache', d, cur)
                            = [data |-> baseDayCache'[k], cache |-> baseDayCache']
       /\ base' # NoBase =>
             base' = baseDayCache'[CacheKey(base'.dateStr, TRUE)]]_vars

\* the records of the displayed grids whose date key is dateStr
RecordsOf(dateStr) ==
    {r \in UNION {{memo[k].days[c] : c \in 1..42} : k \in DOMAIN memo} :
        r.dateStr = dateStr}

\* after a jump: the Sunday, a built-in workday, lies in a custom range and is
\* displayed as a custom holiday, and its cached record is still the workday
C13_Witness ==
    /\ pc = "jumpToMonth"
    /\ customHolidays # <<>>
    /\ markedDates # {}
    /\ selectedDate = Today
    /\ baseDayCache[CacheKey(DateKey(Sunday0), TRUE)].isBuiltInWork
    /\ base.isBuiltInWork
    /\ \E r \in RecordsOf(DateKey(Sunday0)) :
          r.isCurrentMonth /\ r.isHoliday /\ ~r.isWork /\ r.holidayName = "A"

\* C14: once the month list is filled there is one grid for each displayed
\* month, in the order of the list, and every record of every grid is the
\* merge of the base facts of its date with the list of custom ranges and
\* the marked set as they are now.
C14_GridsNeverStale ==
    pc # "mounting" =>
        /\ Len(memo) = Len(months)
        /\ \A k \in DOMAIN memo :
              /\ memo[k].month = months[k]
              /\ Len(memo[k].days) = 42
              /\ \A c \in 1..42 :
                    LET r == memo[k].days[c]
                    IN  r = combineDayData(
                                baseDayCache[CacheKey(r.dateStr, r.isCurrentMonth)],
                                customHolidays, markedDates)

\* the months around March on display after the second range was saved: the
\* Sunday is shown marked and as the custom holiday
C14_Witness ==
    /\ pc = "handleSaveCustomHoliday"
    /\ Len(customHolidays) = 2
    /\ holidayNameInput = ""
    /\ markedDates = {DateKey(Sunday0)}
    /\ months = MonthsList(NewDate(2026, 2, 1))
    /\ \E r \in RecordsOf(DateKey(Sunday0)) :
          r.isMarked /\ r.isHoliday /\ r.holidayName = "A"

-----------------------------------------------------------------------------
(* usePWAInstall.  installPrompt is 0 for null and the number of the event  *)
(* otherwise; events[e] is the state of the e-th BeforeInstallPromptEvent:  *)
(* the settlement of its userChoice promise.  calls[c] is a call of         *)
(* promptInstall: the event it took from the state, the await it is         *)
(* suspended at or how it ended, and the state its finally block replaced.  *)
(* The promise of prompt() resolves or rejects at any moment, for a first   *)
(* call on an event as for a repeated one.                                  *)

NoPrompt == 0

\* canInstall: installPrompt !== null
canInstall == installPrompt # NoPrompt

\* handleBeforeInstallPrompt: event.preventDefault(); setInstallPrompt(event)
handleBeforeInstallPrompt ==
    /\ Len(events) < MaxEvents
    /\ events' = Append(events, [userChoice |-> "pending"])
    /\ installPrompt' = Len(events) + 1
    /\ pc' = "handleBeforeInstallPrompt"
    /\ UNCHANGED <<calls, formVars, viewVars, oracleVars, baseDayCache, userVars,
                   mergeVars, gridVars, progressVars>>

\* handleAppInstalled: setInstallPrompt(null)
handleAppInstalled ==
    /\ installPrompt' = NoPrompt
    /\ pc' = "handleAppInstalled"
    /\ UNCHANGED <<events, calls, formVars, viewVars, oracleVars, baseDayCache, userVars,
                   mergeVars, gridVars, progressVars>>

\* promptInstall up to its first await: nothing without a stored event,
\* otherwise installPrompt.prompt() is called and awaited
promptInstall ==
    /\ IF installPrompt = NoPrompt
       THEN UNCHANGED calls
       ELSE /\ Len(calls) < MaxCalls
            /\ calls' = Append(calls, [event |-> installPrompt, at |-> "prompt",
                                       replaced |-> NoPrompt])
    /\ pc' = "promptInstall"
    /\ UNCHANGED <<installPrompt, events, formVars, viewVars, oracleVars, baseDayCache,
                   userVars, mergeVars, gridVars, progressVars>>

\* the promise of prompt() settles: the call goes on to await userChoice, or
\* the rejection leaves promptInstall before its try block
promptSettled(c, fulfilled) ==
    /\ calls[c].at = "prompt"
    /\ calls' = [calls EXCEPT ![c].at = IF fulfilled THEN "userChoice" ELSE "threw"]
    /\ pc' = "promptSettled"
    /\ UNCHANGED <<installPrompt, events, formVars, viewVars, oracleVars, baseDayCache,
                   userVars, mergeVars, gridVars, progressVars>>

\* the userChoice promise of an event that was prompted settles
userChoiceSettled(e, outcome) ==
    /\ events[e].userChoice = "pending"
    /\ \E c \in DOMAIN calls : calls[c].event = e
    /\ events' = [events EXCEPT ![e].userChoice = outcome]
    /\ pc' = "userChoiceSettled"
    /\ UNCHANGED <<installPrompt, calls, formVars, viewVars, oracleVars, baseDayCache,
                   userVars, mergeVars, gridVars, progressVars>>

\* a finally block that clears the event of its own call only
ClearedOwnPrompt(stored, event) == IF stored = event THEN NoPrompt ELSE stored

\* the state after finally { setInstallPrompt(null) }
ClearedPrompt(stored, event) == NoPrompt

\* promptInstall after await installPrompt.userChoice: the finally block
\* runs whether the promise was fulfilled or rejected
promptInstallFinally(c) ==
    /\ calls[c].at = "userChoice"
    /\ events[calls[c].event].userChoice # "pending"
    /\ installPrompt' = ClearedPrompt(installPrompt, calls[c].event)
    /\ calls' = [calls EXCEPT ![c].at = "returned", ![c].replaced = installPrompt]
    /\ pc' = "promptInstallFinally"
    /\ UNCHANGED <<events, formVars, viewVars, oracleVars, baseDayCache, userVars,
                   mergeVars, gridVars, progressVars>>

-----------------------------------------------------------------------------
(* Specification of the install prompt: events are dispatched, the button   *)
(* is pressed, promises settle, in every order                              *)

Outcomes == {"accepted", "dismissed", "rejected"}

InitInstall ==
    /\ holidayUtil = ConstTable(NoHoliday)
    /\ lunarLib = LunarTable
    /\ baseDayCache = <<>>
    /\ customHolidays = <<>>
    /\ markedDates = {}
    /\ currentDate = NoDate
    /\ MergeIdle /\ GridIdle /\ ProgressIdle /\ FormIdle /\ ViewIdle /\ InstallIdle
    /\ pc = "usePWAInstall"

NextInstall ==
    \/ handleBeforeInstallPrompt
    \/ handleAppInstalled
    \/ promptInstall
    \/ \E c \in DOMAIN calls, fulfilled \in BOOLEAN : promptSettled(c, fulfilled)
    \/ \E e \in DOMAIN events, outcome \in Outcomes : userChoiceSettled(e, outcome)
    \/ \E c \in DOMAIN calls : promptInstallFinally(c)

SpecInstall == InitInstall /\ [][NextInstall]_vars

\* C17: canInstall is true exactly when the state holds an event that was
\* dispatched; promptInstall without a stored event changes nothing; the
\* step that follows the settlement of the user's choice, whatever its
\* outcome, leaves no stored event, and it can be taken as soon as the
\* choice has settled; appinstalled leaves no stored event; no other step
\* changes the stored event, and from no stored event only a new
\* beforeinstallprompt event stores one.
C17_InstallPromptLifecycle ==
    [][/\ canInstall' <=> installPrompt' \in DOMAIN events'
       /\ (pc' = "promptInstall" /\ ~canInstall) => UNCHANGED pwaVars
       /\ pc' = "promptInstallFinally" => ~canInstall'
       /\ pc' = "handleAppInstalled" => ~canInstall'
       /\ installPrompt' # installPrompt =>
             pc' \in {"handleBeforeInstallPrompt", "handleAppInstalled",
                      "promptInstallFinally"}
       /\ (~canInstall /\ canInstall') =>
             /\ pc' = "handleBeforeInstallPrompt"
             /\ installPrompt' = Len(events')
             /\ Len(events') = Len(events) + 1
       /\ \A c \in DOMAIN calls :
             (calls[c].at = "userChoice"
                  /\ events[calls[c].event].userChoice # "pending") =>
                 ENABLED promptInstallFinally(c)]_vars

\* a second event arrived while the call for the first was awaiting the
\* choice; the choice promise was rejected and the finally block cleared the
\* second event
C17_Witness ==
    /\ pc = "promptInstallFinally"
    /\ ~canInstall
    /\ Len(events) = 2
    /\ events[1].userChoice = "rejected"
    /\ calls # <<>>
    /\ calls[1] = [event |-> 1, at |-> "returned", replaced |-> 2]

====
